---- MODULE Spec2Model ----
(***************************************************************************)
(* Model of NimbleDSP's RealVector<T> filtering methods (src/RealVector.h): *)
(* convComplex, decimateComplex, interpComplex and resampleComplex applied  *)
(* by a real filter (this->vec) to a complex signal (data.vec), with the    *)
(* snapshot of the signal taken in the scratch buffer.                      *)
(*                                                                          *)
(* Spec runs one call as a whole, StepSpec the same call one loop step at a *)
(* time, and RedSpec the methods saturate, max and min on this->vec.        *)
(*                                                                          *)
(* Complex samples are pairs <<re, im>> of integers, filter taps are        *)
(* integers.  C++ indices are 0-based; the sequences here are 1-based, so   *)
(* element i of a vector is v[i + 1].                                       *)
(*                                                                          *)
(* An unsigned 32-bit quantity is carried as its two's-complement signed    *)
(* reading, so that size() - 1 of an empty filter (4294967295) is -1.       *)
(***************************************************************************)
EXTENDS Integers, Sequences, FiniteSets, TLC

(***************************************************************************)
(* Bounds of the explored inputs.                                           *)
(***************************************************************************)
MaxN == 3
MaxF == 3
MaxRate == 3

\* Largest value of a C++ int (32 bits).
IntMax == 2147483647
IntMin == (-IntMax) - 1

\* Sample values of the signal, tap values of the filter.
SampleVals == { <<1, 2>>, <<3, -1>> }
TapVals == { 1, 2 }
\* What a read outside a vector's storage may return: one complex value for
\* the snapshot and one real value for the filter, arbitrary for each call.
Garbage == { [sample |-> <<0, 0>>, tap |-> 0], [sample |-> <<5, 7>>, tap |-> 3] }

\* A pointer is the set of what it points to: the null pointer is empty.
NULL == {}

SeqsUpTo(S, lo, hi) == UNION { [1..n -> S] : n \in lo..hi }
Signals == SeqsUpTo(SampleVals, 0, MaxN)
Filters == SeqsUpTo(TapVals, 0, MaxF)
Rates == 1..MaxRate
\* The scratch buffer the signal was constructed with: none, or a vector that
\* still holds what an earlier user left in it.
Scratches == { NULL, { << <<9, 9>> >> } }

VARIABLES vec, data, scratchBuf, before, call, outcome, stats, dataTmp,
          frame, garbage, red
vars == <<vec, data, scratchBuf, before, call, outcome, stats, dataTmp,
          frame, garbage, red>>

(***************************************************************************)
(* Records of the model.  A call c = [op, trimTails, rate, decimateRate]    *)
(* names the method and its arguments (rate is interpRate for resample; a   *)
(* rate the method does not take is 1).  A frame is the state of a call     *)
(* between two steps of its region loops: the signal as written so far,     *)
(* resultIndex, the rolling pair (dataStart, filterStart), the region whose *)
(* loop is running, and what the call has touched so far.                   *)
(***************************************************************************)
NoCall == [op |-> "none", trimTails |-> FALSE, rate |-> 1, decimateRate |-> 1]

\* The frame at the head of the first region loop of a call on signal sig.
FirstFrame(sig) ==
    [data |-> sig, resultIndex |-> 0, dataStart |-> 0, filterStart |-> 0,
     region |-> "initial", huge |-> FALSE, reads |-> 0, writes |-> 0,
     oobRead |-> FALSE, oobWrite |-> FALSE, wild |-> FALSE]

NoStats == [reads |-> 0, writes |-> 0, oobRead |-> FALSE, oobWrite |-> FALSE]

\* No call is running.
NoFrame == [FirstFrame(<<>>) EXCEPT !.region = "none"]

\* What the last call of saturate, max or min was given and gave back:
\* the limit val, the buffer as it was before the call, the value returned
\* and what was stored through the location pointer (NULL: no pointer).
\* ended: "returned", or "aborted" by the assertion.
NoRed == [op |-> "none", val |-> 0, old |-> <<>>, ret |-> 0, loc |-> NULL,
          ended |-> "none"]

\* What a call finds outside the storage of its vectors, before any call.
NoGarbage == [sample |-> <<0, 0>>, tap |-> 0]

(***************************************************************************)
(* Arithmetic of the element and index types.                               *)
(***************************************************************************)
CZero == <<0, 0>>
CAdd(a, b) == <<a[1] + b[1], a[2] + b[2]>>
\* std::complex<T> * T
CScale(a, t) == <<a[1] * t, a[2] * t>>

\* int / int with b >= 1: C++ division truncates towards zero, which for a
\* negative a is the ceiling of a / b.
CDiv(a, b) == IF a >= 0 THEN a \div b ELSE (a + (b - 1)) \div b

\* unsigned - unsigned (or int - unsigned), modulo 2^32, on signed readings.
S32Sub(a, b) ==
    IF b < 0 /\ a > IntMax + b THEN (a + IntMin) - (b - IntMin)
    ELSE IF b > 0 /\ a < IntMin + b THEN (a - IntMin) - (b + IntMin)
    ELSE a - b

\* unsigned / d for d >= 1, on signed readings: a negative reading s stands
\* for 2^32 + s = 2*IntMax + 2 + s.
UDiv(s, d) ==
    IF s >= 0 THEN s \div d
    ELSE IF d = 1 THEN s
    ELSE 2 * (IntMax \div d) + ((2 * (IntMax % d) + 2 + s) \div d)

\* An index so far from any storage that the access faults.
Wild(i) == i < -(IntMax \div 2) \/ i > IntMax \div 2

InBounds(v, i) == 0 <= i /\ i < Len(v)


(***************************************************************************)
(* The buffer container the methods use (ComplexVector / std::vector).      *)
(***************************************************************************)
\* resize(n): keeps the prefix; slots added hold no defined content until
\* the algorithm writes them (fill is whatever the storage held).
Resize(v, n, fill) == [i \in 1..n |-> IF i <= Len(v) THEN v[i] ELSE fill]

\* A length no run can allocate and walk: the unsigned argument wrapped
\* around (negative reading) or is of the order of 2^30 elements or more.
HugeLen(n) == n < 0 \/ Wild(n)

\* Storage beyond the size of a snapshot taken in the caller's scratch buffer
\* still holds what the buffer held before: a read past the snapshot may
\* return one of those elements.
Stale(scratch) ==
    UNION { { [sample |-> s[i], tap |-> t] :
                  i \in 1..Len(s), t \in { g.tap : g \in Garbage } } :
            s \in scratch }

\* dataTmp[dataIndex] and this->vec[filterIndex]: unchecked reads.
ReadSample(tmp, i, g) == IF InBounds(tmp, i) THEN tmp[i + 1] ELSE g.sample
ReadTap(filt, i, g) == IF InBounds(filt, i) THEN filt[i + 1] ELSE g.tap

(***************************************************************************)
(* The inner summation loop, common to every region of the four methods:    *)
(*   for (...; filterIndex >= 0 | dataIndex < dataTmp->size();              *)
(*        dataIndex++, filterIndex -= fstep)                                *)
(*       data[resultIndex] += dataTmp[dataIndex] * this->vec[filterIndex]*)
(* acc carries the running value of data[resultIndex] and what the loop     *)
(* touched.  byFilter selects the loop condition.                           *)
(***************************************************************************)
RECURSIVE InnerLoop(_, _, _, _, _, _, _, _)
InnerLoop(acc, tmp, filt, dataIndex, filterIndex, fstep, byFilter, g) ==
    IF (byFilter /\ filterIndex < 0) \/ (~byFilter /\ dataIndex >= Len(tmp))
    THEN acc
    ELSE IF Wild(dataIndex) \/ Wild(filterIndex)
    THEN [acc EXCEPT !.wild = TRUE]
    ELSE InnerLoop(
           [reads |-> acc.reads + 1,
            oobRead |-> acc.oobRead \/ ~InBounds(tmp, dataIndex)
                                    \/ ~InBounds(filt, filterIndex),
            wild |-> FALSE,
            sum |-> CAdd(acc.sum, CScale(ReadSample(tmp, dataIndex, g),
                                         ReadTap(filt, filterIndex, g)))],
           tmp, filt, dataIndex + 1, filterIndex - fstep, fstep, byFilter, g)

\* data[resultIndex] = 0 before the inner loop.
InnerStart == [reads |-> 0, oobRead |-> FALSE, wild |-> FALSE, sum |-> CZero]

(***************************************************************************)
(* convComplex.  F = this->size(), N = dataTmp->size(), size = data.size(). *)
(***************************************************************************)
\* int initialTrim = (this->size() - 1) / 2;   (unsigned division)
initialTrim(F) == UDiv(F - 1, 2)

\* The length the signal is given before the loops: none when trimming.
convLength(trimTails, N, F) == IF trimTails THEN N ELSE N + F - 1

\* Upper bounds of resultIndex in the three region loops.
convBound(region, trimTails, N, F, size) ==
    IF region = "initial"
    THEN (IF trimTails THEN (F - 1) - initialTrim(F) ELSE F - 1)
    ELSE IF region = "middle"
    THEN (IF trimTails THEN N - initialTrim(F) ELSE N)
    ELSE size

\* Start values of dataIndex and filterIndex of a region's inner loop.
convDataIndex(region, trimTails, F, resultIndex) ==
    IF region = "initial" THEN 0
    ELSE IF trimTails
    THEN S32Sub(resultIndex, S32Sub(F - 1, initialTrim(F)))
    ELSE S32Sub(resultIndex, F - 1)

convFilterIndex(region, trimTails, F, resultIndex) ==
    IF region = "initial"
    THEN (IF trimTails THEN initialTrim(F) + resultIndex ELSE resultIndex)
    ELSE F - 1

(***************************************************************************)
(* decimateComplex.                                                         *)
(***************************************************************************)
\* The lengths with the division rounding down.
decimateLengthFloor(trimTails, N, F, rate) ==
    IF trimTails THEN UDiv(N, rate) ELSE UDiv(N + F - 1, rate)

\* data.resize((data.size() + rate - 1) / rate), and with the filter's tail
\* data.resize(((data.size() + this->size() - 1) + (rate - 1)) / rate).
decimateLength(trimTails, N, F, rate) ==
    IF trimTails THEN UDiv(N + rate - 1, rate)
    ELSE UDiv((N + F - 1) + (rate - 1), rate)

decimateBound(region, trimTails, N, F, rate, size) ==
    IF region = "initial"
    THEN (IF trimTails THEN CDiv(((F - 1) - initialTrim(F)) + rate - 1, rate)
          ELSE CDiv(F - 1 + rate - 1, rate))
    ELSE IF region = "middle"
    THEN (IF trimTails THEN CDiv(N - initialTrim(F) + rate - 1, rate)
          ELSE CDiv(N + rate - 1, rate))
    ELSE size

decimateDataIndex(region, trimTails, F, rate, resultIndex) ==
    IF region = "initial" THEN 0
    ELSE IF trimTails
    THEN S32Sub(resultIndex * rate, S32Sub(F - 1, initialTrim(F)))
    ELSE S32Sub(resultIndex * rate, F - 1)

decimateFilterIndex(region, trimTails, F, rate, resultIndex) ==
    IF region = "initial"
    THEN (IF trimTails THEN initialTrim(F) + resultIndex * rate
          ELSE resultIndex * rate)
    ELSE F - 1

(***************************************************************************)
(* interpComplex.                                                           *)
(***************************************************************************)
interpLength(trimTails, N, F, rate) ==
    IF trimTails THEN N * rate
    ELSE S32Sub(N * rate + F - 1, rate - 1)

interpBound(region, trimTails, N, F, rate, size) ==
    IF region = "initial"
    THEN (IF trimTails THEN (F - 1) - initialTrim(F) ELSE F - 1)
    ELSE IF region = "middle"
    THEN (IF trimTails THEN N * rate - initialTrim(F) ELSE N * rate)
    ELSE size

interpDataIndex(region, dataStart) ==
    IF region = "initial" THEN 0 ELSE dataStart

interpFilterIndex(region, trimTails, F, resultIndex, filterStart) ==
    IF region = "initial"
    THEN (IF trimTails THEN initialTrim(F) + resultIndex ELSE resultIndex)
    ELSE filterStart

\* for (dataStart=0, filterStart=...; ...) at the head of the middle loop.
interpMiddleFilterStart(trimTails, F, resultIndex) ==
    IF trimTails THEN F - 1 ELSE resultIndex

\* ++filterStart; if (filterStart >= size()) {filterStart -= rate; ++dataStart;}
\* at the end of each middle and final step; the initial loop has none.
interpAdvance(region, F, rate, dataStart, filterStart) ==
    IF region = "initial"
    THEN [dataStart |-> dataStart, filterStart |-> filterStart]
    ELSE IF filterStart + 1 >= F
    THEN [dataStart |-> dataStart + 1, filterStart |-> filterStart + 1 - rate]
    ELSE [dataStart |-> dataStart, filterStart |-> filterStart + 1]

(***************************************************************************)
(* resampleComplex.                                                         *)
(***************************************************************************)
\* int interpLen = ...; int resampLen = (interpLen + decimateRate - 1) / decimateRate;
resampleInterpLen(trimTails, N, F, interpRate) ==
    IF trimTails THEN N * interpRate
    ELSE S32Sub(N * interpRate + F - 1, interpRate - 1)

resampleLength(trimTails, N, F, interpRate, decimateRate) ==
    CDiv(resampleInterpLen(trimTails, N, F, interpRate) + decimateRate - 1,
         decimateRate)

resampleBound(region, trimTails, N, F, interpRate, decimateRate, size) ==
    IF region = "initial"
    THEN (IF trimTails
          THEN CDiv((F - 1) - initialTrim(F) + decimateRate - 1, decimateRate)
          ELSE CDiv(F - 1 + decimateRate - 1, decimateRate))
    ELSE IF region = "middle"
    THEN (IF trimTails
          THEN CDiv(N * interpRate - initialTrim(F) + decimateRate - 1, decimateRate)
          ELSE CDiv(N * interpRate + decimateRate - 1, decimateRate))
    ELSE size

resampleDataIndex(region, dataStart) ==
    IF region = "initial" THEN 0 ELSE dataStart

\* filterStart at the head of the initial loop.
resampleFilterStart(trimTails, F) == IF trimTails THEN initialTrim(F) ELSE 0

\* The wrap as a single if: at most one gap is crossed in a step.
resampleWrapOnce(F, interpRate, dataStart, filterStart) ==
    IF filterStart >= F
    THEN [dataStart |-> dataStart + 1, filterStart |-> filterStart - interpRate]
    ELSE [dataStart |-> dataStart, filterStart |-> filterStart]

\* while (filterStart >= (int)this->size()) {filterStart -= interpRate; ++dataStart;}
RECURSIVE resampleWrap(_, _, _, _)
resampleWrap(F, interpRate, dataStart, filterStart) ==
    IF filterStart >= F
    THEN resampleWrap(F, interpRate, dataStart + 1, filterStart - interpRate)
    ELSE [dataStart |-> dataStart, filterStart |-> filterStart]

\* filterStart += decimateRate; followed by the wrap loop, in all three regions.
resampleAdvance(F, interpRate, decimateRate, dataStart, filterStart) ==
    resampleWrap(F, interpRate, dataStart, filterStart + decimateRate)


(***************************************************************************)
(* One call c on a frame f: the expressions of the method that c names.     *)
(***************************************************************************)
Length(c, N, F) ==
    CASE c.op = "conv" -> convLength(c.trimTails, N, F)
      [] c.op = "decimate" -> decimateLength(c.trimTails, N, F, c.rate)
      [] c.op = "interp" -> interpLength(c.trimTails, N, F, c.rate)
      [] c.op = "resample" ->
             resampleLength(c.trimTails, N, F, c.rate, c.decimateRate)

Bound(c, region, N, F, size) ==
    CASE c.op = "conv" -> convBound(region, c.trimTails, N, F, size)
      [] c.op = "decimate" ->
             decimateBound(region, c.trimTails, N, F, c.rate, size)
      [] c.op = "interp" -> interpBound(region, c.trimTails, N, F, c.rate, size)
      [] c.op = "resample" ->
             resampleBound(region, c.trimTails, N, F, c.rate, c.decimateRate, size)

DataIndex(c, f, F) ==
    CASE c.op = "conv" -> convDataIndex(f.region, c.trimTails, F, f.resultIndex)
      [] c.op = "decimate" ->
             decimateDataIndex(f.region, c.trimTails, F, c.rate, f.resultIndex)
      [] c.op = "interp" -> interpDataIndex(f.region, f.dataStart)
      [] c.op = "resample" -> resampleDataIndex(f.region, f.dataStart)

FilterIndex(c, f, F) ==
    CASE c.op = "conv" -> convFilterIndex(f.region, c.trimTails, F, f.resultIndex)
      [] c.op = "decimate" ->
             decimateFilterIndex(f.region, c.trimTails, F, c.rate, f.resultIndex)
      [] c.op = "interp" ->
             interpFilterIndex(f.region, c.trimTails, F, f.resultIndex, f.filterStart)
      [] c.op = "resample" -> f.filterStart

\* filterIndex-- in conv and decimate, filterIndex -= rate in the other two.
FilterStep(c) == IF c.op \in {"conv", "decimate"} THEN 1 ELSE c.rate

\* (dataStart, filterStart) after a step of a region loop.
Advance(c, f, F) ==
    CASE c.op \in {"conv", "decimate"} ->
             [dataStart |-> f.dataStart, filterStart |-> f.filterStart]
      [] c.op = "interp" ->
             interpAdvance(f.region, F, c.rate, f.dataStart, f.filterStart)
      [] c.op = "resample" ->
             resampleAdvance(F, c.rate, c.decimateRate, f.dataStart, f.filterStart)

\* The frame when the loops start: the signal resized, resultIndex = 0.
\* A length that cannot be walked ends the call there.
StartFrame(c, filt, sig, g) ==
    LET n == Length(c, Len(sig), Len(filt))
    IN  [FirstFrame(sig) EXCEPT
             !.data = IF HugeLen(n) THEN sig ELSE Resize(sig, n, g.sample),
             !.filterStart = IF c.op = "resample"
                             THEN resampleFilterStart(c.trimTails, Len(filt))
                             ELSE 0,
             !.region = IF HugeLen(n) THEN "done" ELSE "initial",
             !.huge = HugeLen(n)]

\* One step of the running region loop: data[resultIndex] = 0, the inner
\* loop, the advance of the rolling pair, resultIndex++.  A write outside
\* the signal's storage changes no element of the signal.
Body(c, f, filt, tmp, g) ==
    LET r == f.resultIndex
        F == Len(filt)
        in == InnerLoop(InnerStart, tmp, filt, DataIndex(c, f, F),
                        FilterIndex(c, f, F), FilterStep(c),
                        f.region # "final", g)
        adv == IF in.wild
               THEN [dataStart |-> f.dataStart, filterStart |-> f.filterStart]
               ELSE Advance(c, f, F)
    IN  [f EXCEPT !.data = IF InBounds(f.data, r)
                           THEN [@ EXCEPT ![r + 1] = in.sum] ELSE @,
                  !.resultIndex = r + 1,
                  !.dataStart = adv.dataStart,
                  !.filterStart = adv.filterStart,
                  !.reads = @ + in.reads,
                  !.writes = @ + 1 + in.reads,
                  !.oobRead = @ \/ in.oobRead,
                  !.oobWrite = @ \/ ~InBounds(f.data, r),
                  !.wild = in.wild]

\* The loop of `region` is over: the next loop starts where this one stopped.
NextRegion(c, f, F) ==
    IF f.region = "initial"
    THEN IF c.op = "interp"
         THEN [f EXCEPT !.region = "middle",
                        !.dataStart = 0,
                        !.filterStart =
                            interpMiddleFilterStart(c.trimTails, F, f.resultIndex)]
         ELSE [f EXCEPT !.region = "middle"]
    ELSE IF f.region = "middle" THEN [f EXCEPT !.region = "final"]
    ELSE [f EXCEPT !.region = "done"]

Step(c, f, filt, tmp, g) ==
    IF f.resultIndex < Bound(c, f.region, Len(tmp), Len(filt), Len(f.data))
    THEN Body(c, f, filt, tmp, g)
    ELSE NextRegion(c, f, Len(filt))

RECURSIVE Run(_, _, _, _, _)
Run(c, f, filt, tmp, g) ==
    IF f.region = "done" \/ f.wild THEN f
    ELSE Run(c, Step(c, f, filt, tmp, g), filt, tmp, g)

\* The whole call on signal sig with filter filt.
RunCall(c, filt, sig, g) == Run(c, StartFrame(c, filt, sig, g), filt, sig, g)

\* How a call that ended in frame f can end for the caller.
Outcomes(f) ==
    IF f.huge THEN {"bad_alloc", "huge"}
    ELSE IF f.wild THEN {"crashed"}
    ELSE IF f.oobRead \/ f.oobWrite THEN {"returned", "crashed"}
    ELSE {"returned"}


(***************************************************************************)
(* The state machine: a filter, a signal and the signal's scratch buffer    *)
(* are constructed, then one of the four methods is called on them.         *)
(*   before  - the signal as it was when the call was made                  *)
(*   call    - the method called and its arguments                          *)
(*   outcome - "none" before the call, then how the call ended              *)
(*   stats   - what the call touched                                        *)
(*   dataTmp - the snapshot the call reads                                  *)
(*   frame   - the locals of the call (at its end, in Spec)                 *)
(*   garbage - what a running call finds outside its vectors (StepSpec)     *)
(*   red     - the last call of saturate, max or min (RedSpec)              *)
(***************************************************************************)
Init ==
    /\ vec \in Filters
    /\ data \in Signals
    /\ scratchBuf \in Scratches
    /\ before = <<>>
    /\ call = NoCall
    /\ outcome = "none"
    /\ stats = NoStats
    /\ dataTmp = <<>>
    /\ frame = NoFrame
    /\ garbage = NoGarbage
    /\ red = NoRed

\* The common shape of the four methods: *dataTmp = data.vec (into the
\* caller's scratch buffer when there is one), then the resize and the loops.
Call(c) ==
    /\ outcome = "none"
    /\ \E g \in Garbage \cup Stale(scratchBuf) :
         \E f \in { RunCall(c, vec, data, g) } :
             /\ outcome' \in Outcomes(f)
             /\ data' = f.data
             /\ frame' = f
             /\ stats' = [reads |-> f.reads, writes |-> f.writes,
                          oobRead |-> f.oobRead, oobWrite |-> f.oobWrite]
    /\ scratchBuf' = IF scratchBuf = NULL THEN NULL ELSE { data }
    /\ before' = data
    /\ call' = c
    /\ dataTmp' = data
    /\ UNCHANGED <<vec, garbage, red>>

convComplex ==
    \E trimTails \in BOOLEAN :
        Call([op |-> "conv", trimTails |-> trimTails, rate |-> 1, decimateRate |-> 1])

decimateComplex ==
    \E rate \in Rates, trimTails \in BOOLEAN :
        Call([op |-> "decimate", trimTails |-> trimTails, rate |-> rate,
              decimateRate |-> 1])

interpComplex ==
    \E rate \in Rates, trimTails \in BOOLEAN :
        Call([op |-> "interp", trimTails |-> trimTails, rate |-> rate,
              decimateRate |-> 1])

resampleComplex ==
    \E interpRate \in Rates, decimateRate \in Rates, trimTails \in BOOLEAN :
        Call([op |-> "resample", trimTails |-> trimTails, rate |-> interpRate,
              decimateRate |-> decimateRate])

Next == convComplex \/ decimateComplex \/ interpComplex \/ resampleComplex

Spec == Init /\ [][Next]_vars

(***************************************************************************)
(* The same calls, one statement group at a time: the snapshot, the resize, *)
(* each step of a region loop, the end of a region loop, the return.        *)
(* frame is the frame of the running call and garbage what this call finds  *)
(* outside the storage of its vectors.                                      *)
(***************************************************************************)
Calls ==
    { [op |-> op, trimTails |-> t, rate |-> r, decimateRate |-> d] :
          op \in {"conv", "decimate", "interp", "resample"}, t \in BOOLEAN,
          r \in Rates, d \in Rates }

\* The argument lists the methods have: conv takes no rate, and only
\* resample a decimateRate beside its interpRate.
Callable(c) ==
    /\ c.op = "conv" => c.rate = 1
    /\ c.op # "resample" => c.decimateRate = 1

Running == outcome = "running"
InLoop == Running /\ frame.region \in {"initial", "middle", "final"} /\ ~frame.wild

\* dataTmp = &scratch or data.scratchBuf;  *dataTmp = data.vec;
Snapshot ==
    /\ outcome = "none"
    /\ \E c \in Calls : Callable(c) /\ call' = c
    /\ garbage' \in Garbage \cup Stale(scratchBuf)
    /\ dataTmp' = data
    /\ scratchBuf' = IF scratchBuf = NULL THEN NULL ELSE { data }
    /\ before' = data
    /\ frame' = [FirstFrame(data) EXCEPT !.region = "resize"]
    /\ outcome' = "running"
    /\ UNCHANGED <<vec, data, stats, red>>

\* data.resize(...) and the head of the first region loop.
ResizeSignal ==
    /\ Running /\ frame.region = "resize"
    /\ frame' = StartFrame(call, vec, data, garbage)
    /\ data' = frame'.data
    /\ UNCHANGED <<vec, scratchBuf, before, call, outcome, stats, dataTmp,
                   garbage, red>>

\* One pass through the body of the running region loop.
LoopStep ==
    /\ InLoop
    /\ frame.resultIndex < Bound(call, frame.region, Len(dataTmp), Len(vec), Len(data))
    /\ frame' = Body(call, frame, vec, dataTmp, garbage)
    /\ data' = frame'.data
    /\ UNCHANGED <<vec, scratchBuf, before, call, outcome, stats, dataTmp,
                   garbage, red>>

\* The condition of the running region loop fails.
RegionEnd ==
    /\ InLoop
    /\ ~(frame.resultIndex < Bound(call, frame.region, Len(dataTmp), Len(vec), Len(data)))
    /\ frame' = NextRegion(call, frame, Len(vec))
    /\ UNCHANGED <<vec, data, scratchBuf, before, call, outcome, stats,
                   dataTmp, garbage, red>>

\* return data; the call-scoped scratch vector is destroyed.
Return ==
    /\ Running /\ (frame.region = "done" \/ frame.wild)
    /\ outcome' \in Outcomes(frame)
    /\ stats' = [reads |-> frame.reads, writes |-> frame.writes,
                 oobRead |-> frame.oobRead, oobWrite |-> frame.oobWrite]
    /\ dataTmp' = IF scratchBuf = NULL THEN <<>> ELSE dataTmp
    /\ UNCHANGED <<vec, data, scratchBuf, before, call, frame, garbage, red>>

StepNext == Snapshot \/ ResizeSignal \/ LoopStep \/ RegionEnd \/ Return

StepSpec == Init /\ [][StepNext]_vars

(***************************************************************************)
(* saturate, max and min of a buffer of real numbers (this->vec).           *)
(***************************************************************************)
\* The scan with the comparison maxVal <= vec[i]: a later equal element
\* replaces the earlier one.
RECURSIVE maxLoopLast(_, _, _, _)
maxLoopLast(v, i, maxVal, maxIndex) ==
    IF ~(i < Len(v)) THEN [ret |-> maxVal, loc |-> maxIndex]
    ELSE IF maxVal <= v[i + 1] THEN maxLoopLast(v, i + 1, v[i + 1], i)
    ELSE maxLoopLast(v, i + 1, maxVal, maxIndex)

\* for (unsigned i=1; i<size(); i++) if (maxVal < vec[i]) {maxVal = vec[i]; maxIndex = i;}
RECURSIVE maxLoop(_, _, _, _)
maxLoop(v, i, maxVal, maxIndex) ==
    IF ~(i < Len(v)) THEN [ret |-> maxVal, loc |-> maxIndex]
    ELSE IF maxVal < v[i + 1] THEN maxLoop(v, i + 1, v[i + 1], i)
    ELSE maxLoop(v, i + 1, maxVal, maxIndex)

\* for (unsigned i=1; i<size(); i++) if (vec[i] < minVal) {minVal = vec[i]; minIndex = i;}
RECURSIVE minLoop(_, _, _, _)
minLoop(v, i, minVal, minIndex) ==
    IF ~(i < Len(v)) THEN [ret |-> minVal, loc |-> minIndex]
    ELSE IF v[i + 1] < minVal THEN minLoop(v, i + 1, v[i + 1], i)
    ELSE minLoop(v, i + 1, minVal, minIndex)

\* The loop with the lower limit compared and stored without its sign.
saturateLoopUnsigned(v, val) ==
    [i \in 1..Len(v) |-> IF v[i] > val THEN val
                         ELSE IF v[i] < val THEN val
                         ELSE v[i]]

\* for each i: if (vec[i] > val) vec[i] = val; else if (vec[i] < -val) vec[i] = -val;
saturateLoop(v, val) ==
    [i \in 1..Len(v) |-> IF v[i] > val THEN val
                         ELSE IF v[i] < -val THEN -val
                         ELSE v[i]]

\* Elements of the buffers and limits given to saturate.
ElemVals == { -2, -1, 0, 1, 2 }
Limits == { -1, 0, 1, 2 }
Buffers == SeqsUpTo(ElemVals, 0, MaxF)

RedInit ==
    /\ vec \in Buffers
    /\ data = <<>>
    /\ scratchBuf = NULL
    /\ before = <<>>
    /\ call = NoCall
    /\ outcome = "none"
    /\ stats = NoStats
    /\ dataTmp = <<>>
    /\ frame = NoFrame
    /\ garbage = NoGarbage
    /\ red = NoRed

RedUnchanged ==
    UNCHANGED <<data, scratchBuf, before, call, outcome, stats, dataTmp,
                frame, garbage>>

saturate ==
    /\ \E val \in Limits :
         /\ vec' = saturateLoop(vec, val)
         /\ red' = [NoRed EXCEPT !.op = "saturate", !.val = val, !.old = vec,
                                 !.ended = "returned"]
    /\ RedUnchanged

\* assert(this->size() > 0): an empty buffer aborts the call, or with the
\* assertion compiled out the call goes on.
Ends(v) == IF Len(v) = 0 THEN {"aborted", "returned"} ELSE {"returned"}

\* T maxVal = this->vec[0] (an unchecked read) and maxIndex = 0.
First(v, g) == IF Len(v) = 0 THEN g.tap ELSE v[1]

\* if (loc != NULL) *loc = index;  return val;
Reduced(op, v, r, wantLoc, e) ==
    [NoRed EXCEPT !.op = op, !.old = v,
                  !.ret = IF e = "returned" THEN r.ret ELSE 0,
                  !.loc = IF e = "returned" /\ wantLoc THEN {r.loc} ELSE NULL,
                  !.ended = e]

max ==
    /\ \E wantLoc \in BOOLEAN, g \in Garbage, e \in Ends(vec) :
         red' = Reduced("max", vec, maxLoop(vec, 1, First(vec, g), 0), wantLoc, e)
    /\ UNCHANGED vec
    /\ RedUnchanged

min ==
    /\ \E wantLoc \in BOOLEAN, g \in Garbage, e \in Ends(vec) :
         red' = Reduced("min", vec, minLoop(vec, 1, First(vec, g), 0), wantLoc, e)
    /\ UNCHANGED vec
    /\ RedUnchanged

RedNext == saturate \/ max \/ min

RedSpec == RedInit /\ [][RedNext]_vars

(***************************************************************************)
(* Reference sequences the contracts are stated against.                    *)
(***************************************************************************)
\* Sum for k = k0 .. F-1 of sig[r-k] * filt[k], over the k with 0 <= r-k < N.
RECURSIVE ConvSum(_, _, _, _)
ConvSum(sig, filt, r, k) ==
    IF k >= Len(filt) THEN CZero
    ELSE CAdd(IF 0 <= r - k /\ r - k < Len(sig)
              THEN CScale(sig[(r - k) + 1], filt[k + 1]) ELSE CZero,
              ConvSum(sig, filt, r, k + 1))

\* Element r (0-based) of the zero-padded convolution of sig with filt.
ConvAt(sig, filt, r) == ConvSum(sig, filt, r, 0)

\* Sum for d = d0 .. N-1 of sig[d] * filt[r - d*rate], over the d with
\* 0 <= r - d*rate < F.
RECURSIVE StuffedSum(_, _, _, _, _)
StuffedSum(sig, filt, rate, r, d) ==
    IF d >= Len(sig) THEN CZero
    ELSE CAdd(IF 0 <= r - d * rate /\ r - d * rate < Len(filt)
              THEN CScale(sig[d + 1], filt[(r - d * rate) + 1]) ELSE CZero,
              StuffedSum(sig, filt, rate, r, d + 1))

\* Element r of the convolution of filt with sig zero-stuffed by rate.
StuffedAt(sig, filt, rate, r) == StuffedSum(sig, filt, rate, r, 0)

\* Elements 0, rate, 2*rate, ... of s.
Downsample(s, rate) ==
    [i \in 1..((Len(s) + rate - 1) \div rate) |-> s[(i - 1) * rate + 1]]

Trim(F) == (F - 1) \div 2

RefConv(sig, filt, trimTails) ==
    IF trimTails
    THEN [i \in 1..Len(sig) |-> ConvAt(sig, filt, (i - 1) + Trim(Len(filt)))]
    ELSE [i \in 1..(Len(sig) + Len(filt) - 1) |-> ConvAt(sig, filt, i - 1)]

RefInterp(sig, filt, rate, trimTails) ==
    IF trimTails
    THEN [i \in 1..(Len(sig) * rate) |->
              StuffedAt(sig, filt, rate, (i - 1) + Trim(Len(filt)))]
    ELSE [i \in 1..(Len(sig) * rate + Len(filt) - 1 - (rate - 1)) |->
              StuffedAt(sig, filt, rate, i - 1)]

\* Ceiling of a / b for b >= 1.
CeilDiv(a, b) == -((-a) \div b)

N0 == Len(before)
F0 == Len(vec)
Returned == outcome = "returned"
Called(op) == call.op = op /\ outcome # "none"

\* The call made with the same arguments by another method.
AsCall(op, rate, decimateRate) ==
    [op |-> op, trimTails |-> call.trimTails, rate |-> rate,
     decimateRate |-> decimateRate]

\* Method call c on the same filter and original signal can return, and
\* returns exactly res whatever its reads outside the snapshot yield.
SameAs(c, res) ==
    \A g \in Garbage :
        \E f \in { RunCall(c, vec, before, g) } :
            "returned" \in Outcomes(f) /\ f.data = res

(***************************************************************************)
(* C1: after convComplex(data, false) with a filter of length F >= 1 the    *)
(* signal is the full zero-padded convolution of the original signal with   *)
(* the filter: length N+F-1, element r = sum of signal[r-k]*filter[k].      *)
(* Fails on the code whenever N < F-1: the initial region then reads the    *)
(* snapshot at index N and beyond.                                          *)
(***************************************************************************)
C1_ConvFull ==
    (Called("conv") /\ ~call.trimTails /\ F0 >= 1 /\ Returned)
        => data = RefConv(before, vec, FALSE)

(***************************************************************************)
(* C2: after convComplex(data, true) with F >= 1 the signal has length N    *)
(* and element r is element r + (F-1)/2 of the full convolution.  Fails on  *)
(* the code whenever N < F-1.                                               *)
(***************************************************************************)
C2_ConvTrimmed ==
    (Called("conv") /\ call.trimTails /\ F0 >= 1 /\ Returned)
        => data = RefConv(before, vec, TRUE)

(***************************************************************************)
(* C3: the result of decimateComplex(data, rate, trimTails) is the result   *)
(* of convComplex(data, trimTails) on the same original signal, keeping the *)
(* elements at indices 0, rate, 2*rate, ...                                 *)
(***************************************************************************)
C3_DecimateIsConvDownsampled ==
    (Called("decimate") /\ F0 >= 1 /\ Returned)
        => \A g \in Garbage :
             \E f \in { RunCall(AsCall("conv", 1, 1), vec, before, g) } :
                 /\ "returned" \in Outcomes(f)
                 /\ data = Downsample(f.data, call.rate)

(***************************************************************************)
(* C4: the result of interpComplex(data, rate, trimTails) is the full       *)
(* convolution of the filter with the zero-stuffed signal, without its last *)
(* rate-1 samples (untrimmed), or its N*rate elements from index (F-1)/2    *)
(* (trimmed).                                                               *)
(***************************************************************************)
C4_InterpIsStuffedConv ==
    (Called("interp") /\ F0 >= 1 /\ Returned)
        => data = RefInterp(before, vec, call.rate, call.trimTails)

(***************************************************************************)
(* C5: the result of resampleComplex(data, interpRate, decimateRate,        *)
(* trimTails) is the zero-stuff-and-convolve reference of interpolation by  *)
(* interpRate, keeping the elements at indices 0, decimateRate, ...         *)
(***************************************************************************)
C5_ResampleIsPipeline ==
    (Called("resample") /\ F0 >= 1 /\ Returned)
        => data = Downsample(RefInterp(before, vec, call.rate, call.trimTails),
                             call.decimateRate)

(***************************************************************************)
(* C6: decimateComplex(1) and interpComplex(1) give what convComplex gives; *)
(* resampleComplex(1, R) gives what decimateComplex(R) gives,               *)
(* resampleComplex(R, 1) what interpComplex(R) gives and                    *)
(* resampleComplex(1, 1) what convComplex gives, element for element.       *)
(***************************************************************************)
C6_Reductions ==
    (F0 >= 1 /\ Returned) =>
        /\ (call.op \in {"decimate", "interp"} /\ call.rate = 1)
               => SameAs(AsCall("conv", 1, 1), data)
        /\ (call.op = "resample" /\ call.rate = 1)
               => SameAs(AsCall("decimate", call.decimateRate, 1), data)
        /\ (call.op = "resample" /\ call.decimateRate = 1)
               => SameAs(AsCall("interp", call.rate, 1), data)
        /\ (call.op = "resample" /\ call.rate = 1 /\ call.decimateRate = 1)
               => SameAs(AsCall("conv", 1, 1), data)

(***************************************************************************)
(* C7: for F >= 1, the signal's length after a call that returns is N+F-1   *)
(* for untrimmed convComplex, N for trimmed convComplex,                    *)
(* ceil((N+F-1)/rate) for untrimmed decimateComplex and ceil(N/rate) for    *)
(* trimmed decimateComplex.                                                 *)
(***************************************************************************)
C7_LengthLaws ==
    (F0 >= 1 /\ Returned) =>
        /\ call.op = "conv" =>
               Len(data) = IF call.trimTails THEN N0 ELSE N0 + F0 - 1
        /\ call.op = "decimate" =>
               Len(data) = CeilDiv(IF call.trimTails THEN N0 ELSE N0 + F0 - 1,
                                   call.rate)

\* An untrimmed decimation by 2 of a full convolution of odd length 3 has
\* returned with 2 elements.
C7_Witness ==
    /\ Called("decimate") /\ Returned /\ ~call.trimTails /\ call.rate = 2
    /\ N0 = 2 /\ F0 = 2 /\ Len(data) = 2

(***************************************************************************)
(* C8: for F >= 1, every call of interpComplex and resampleComplex gives    *)
(* the signal a non-negative length computed without unsigned wrap-around:  *)
(* N*rate (trimmed) or N*rate + F - 1 - (rate-1) (untrimmed) for            *)
(* interpComplex, and the ceiling of that length for interpRate divided by  *)
(* decimateRate for resampleComplex.                                        *)
(***************************************************************************)
C8_InterpResampleLengths ==
    (call.op \in {"interp", "resample"} /\ outcome # "none" /\ F0 >= 1) =>
        /\ outcome \notin {"bad_alloc", "huge"}
        /\ Returned =>
             LET interpLen == IF call.trimTails THEN N0 * call.rate
                              ELSE N0 * call.rate + F0 - 1 - (call.rate - 1)
             IN  /\ interpLen >= 0
                 /\ Len(data) = CeilDiv(interpLen, call.decimateRate)

(***************************************************************************)
(* C9: a call with a zero-length filter ends in an InvalidArgument outcome, *)
(* the signal's length and content being what they were before the call.    *)
(***************************************************************************)
C9_InvalidArgumentRejected ==
    (F0 = 0 /\ outcome # "none")
        => (outcome = "InvalidArgument" /\ data = before)

(***************************************************************************)
(* C10: convComplex(data, true) on an empty signal, F >= 1, returns with a  *)
(* signal of length 0, having written no output element and read no         *)
(* snapshot element.                                                        *)
(***************************************************************************)
C10_EmptySignalTrimmed ==
    (Called("conv") /\ call.trimTails /\ N0 = 0 /\ F0 >= 1)
        => (Returned /\ Len(data) = 0 /\ stats.writes = 0 /\ stats.reads = 0)

(***************************************************************************)
(* C11: a call made on a signal that has a caller-supplied scratch buffer   *)
(* leaves the signal as the same call leaves it when no scratch buffer is   *)
(* supplied (the snapshot then lives in a vector of the call's own),        *)
(* whatever the supplied buffer held before the call.  Fails on the code    *)
(* for N < F-1: the reads past the snapshot return what the buffer's        *)
(* storage held from its earlier use.                                       *)
(***************************************************************************)
C11_ScratchStateless ==
    (Returned /\ scratchBuf # NULL /\ F0 >= 1)
        => \A g \in Garbage :
             \E f \in { RunCall(call, vec, before, g) } :
                 "returned" \in Outcomes(f) /\ f.data = data

\* saturate(val) has just returned: every element of the buffer lies in
\* [-val, val] and those that did lie there before the call are unchanged.
Clamped ==
    /\ Len(vec) = Len(red.old)
    /\ \A i \in 1..Len(vec) :
         /\ -red.val <= vec[i] /\ vec[i] <= red.val
         /\ (-red.val <= red.old[i] /\ red.old[i] <= red.val)
                => vec[i] = red.old[i]

\* This step is a call of saturate with the limit of the call before it.
SaturateAgain ==
    /\ red.op = "saturate" /\ red'.op = "saturate"
    /\ red'.val = red.val /\ red'.old = vec

(***************************************************************************)
(* C12 as stated, for every limit val: after saturate(val) every element    *)
(* lies in [-val, val], the elements that lay there are unchanged, and      *)
(* saturate(val) applied again gives the same buffer.  With val < 0 the     *)
(* interval is empty and the code sets an element above val to val and one  *)
(* at or below val to -val, which a second call swaps.                      *)
(***************************************************************************)
C12_SaturateAnyLimit ==
    red.op = "saturate" => (Clamped /\ saturateLoop(vec, red.val) = vec)

(***************************************************************************)
(* C12, amended: for every limit val >= 0, after saturate(val) every        *)
(* element lies in [-val, val] and the elements that lay there before are   *)
(* unchanged; a call of saturate(val) that follows a call of saturate(val)  *)
(* leaves the buffer as it is.                                              *)
(***************************************************************************)
C12_SaturateClampsIdempotent ==
    /\ []((red.op = "saturate" /\ red.val >= 0) => Clamped)
    /\ [][(SaturateAgain /\ red.val >= 0) => vec' = vec]_vars

\* saturate(1) has clamped [2, -2, 0] to [1, -1, 0].
C12_Witness ==
    /\ red.op = "saturate" /\ red.val = 1
    /\ red.old = <<2, -2, 0>> /\ vec = <<1, -1, 0>>

(***************************************************************************)
(* C13: max(&loc) of a non-empty buffer returns its largest element and     *)
(* min(&loc) its smallest; loc, when given, receives the lowest index at    *)
(* which the returned value occurs; the buffer is unchanged.                *)
(***************************************************************************)
C13_MaxMinFirstIndex ==
    (red.op \in {"max", "min"} /\ Len(red.old) > 0) =>
        /\ red.ended = "returned"
        /\ vec = red.old
        /\ \E i \in 1..Len(vec) : vec[i] = red.ret
        /\ \A i \in 1..Len(vec) :
             IF red.op = "max" THEN vec[i] <= red.ret ELSE vec[i] >= red.ret
        /\ \A l \in red.loc :
             /\ InBounds(vec, l) /\ vec[l + 1] = red.ret
             /\ \A j \in 0..(l - 1) : vec[j + 1] # red.ret

\* max(&loc) of [1, 2, 2] has returned 2 with loc = 1, the first of the two.
C13_Witness ==
    /\ red.op = "max" /\ red.old = <<1, 2, 2>>
    /\ red.ret = 2 /\ red.loc = {1}

(***************************************************************************)
(* C14: with a filter of length F >= 1, every access a call has made so far *)
(* in its region loops was within bounds: the snapshot read at              *)
(* 0 <= dataIndex < N, the filter at 0 <= filterIndex < F and the signal    *)
(* written at 0 <= resultIndex < its length.  Fails on the code for         *)
(* N < F-1 (snapshot reads) and for F < rate (signal writes).               *)
(***************************************************************************)
C14_IndexValidity ==
    (outcome # "none" /\ F0 >= 1)
        => (~frame.oobRead /\ ~frame.oobWrite /\ ~frame.wild)

\* While a call runs, the snapshot (in the caller's scratch buffer when there
\* is one) holds the signal as it was before the call, and it was taken
\* while the signal was still untouched.
SnapshotKept ==
    /\ dataTmp = before
    /\ scratchBuf # NULL => scratchBuf = { before }
    /\ frame.region = "resize" => data = before

(***************************************************************************)
(* C15: while a call with a filter of length F >= 1 runs, the snapshot is   *)
(* the complete pre-call content of the signal, taken before the resize and *)
(* any write and not modified since, and every sample that has entered an   *)
(* output sum was an element of that snapshot.  The last part fails on the  *)
(* code for N < F-1, where the reads go past the snapshot (C14).            *)
(***************************************************************************)
C15_SnapshotDiscipline ==
    (Running /\ F0 >= 1) => (SnapshotKept /\ ~frame.oobRead)

(***************************************************************************)
(* C16: in a call with a filter of length F >= 1 the region loops visit the *)
(* output indices in increasing order from 0, one per step, so after the    *)
(* resize the indices visited so far are 0 .. resultIndex-1; none of them   *)
(* is at or beyond the signal's length L, and when the last loop is over    *)
(* resultIndex = L: every slot has been zeroed and accumulated into.  Fails *)
(* on the code for N < F-1 (trimmed) and F < rate (untrimmed                *)
(* interpolation), where a loop runs past L.  (Calls whose resize argument  *)
(* wrapped around, C8, are left aside.)                                     *)
(***************************************************************************)
C16_RegionPartition ==
    (Running /\ F0 >= 1 /\ frame.region # "resize" /\ ~frame.huge) =>
        /\ frame.resultIndex <= Len(data)
        /\ frame.region = "done" => frame.resultIndex = Len(data)

\* The call is at the head of a step of a region loop.
AtStep ==
    /\ InLoop
    /\ frame.resultIndex < Bound(call, frame.region, Len(dataTmp), Len(vec), Len(data))

\* The steps whose inner loop starts from the rolling pair: every step of
\* resampleComplex, the middle and final steps of interpComplex.
UsesPair ==
    \/ call.op = "resample"
    \/ call.op = "interp" /\ frame.region # "initial"

(***************************************************************************)
(* C17: at the head of every step of interpComplex and resampleComplex that *)
(* uses (dataStart, filterStart), with F >= 1:                              *)
(*   dataStart*interpRate + filterStart = resultIndex*decimateRate          *)
(*                                        (+ (F-1)/2 when trimTails),       *)
(*   filterStart <= F-1, and dataStart = 0 or filterStart + interpRate >    *)
(*   F-1; in the initial region, where the inner loop starts at data index  *)
(*   0, dataStart = 0.  decimateRate is 1 for interpComplex.                *)
(***************************************************************************)
C17_RollingPair ==
    (AtStep /\ UsesPair /\ F0 >= 1) =>
        /\ frame.dataStart * call.rate + frame.filterStart
               = frame.resultIndex * call.decimateRate
                 + (IF call.trimTails THEN Trim(F0) ELSE 0)
        /\ frame.filterStart <= F0 - 1
        /\ frame.dataStart = 0 \/ frame.filterStart + call.rate > F0 - 1
        /\ frame.region = "initial" => frame.dataStart = 0

\* resampleComplex(data, 1, 2, false) with a one-tap filter is at the head of
\* its second step: the first step crossed two gaps, dataStart is 2.
C17_Witness ==
    /\ AtStep /\ call.op = "resample" /\ ~call.trimTails
    /\ call.rate = 1 /\ call.decimateRate = 2 /\ F0 = 1
    /\ frame.resultIndex = 1 /\ frame.dataStart = 2 /\ frame.filterStart = 0

(***************************************************************************)
(* C18: a call with a filter of length F >= 1 runs to completion: it ends   *)
(* in no other way than by returning to its caller (with the signal it      *)
(* computed, or with a signal of the wrapped length when that could be      *)
(* allocated).  Fails on the code where the resize argument wraps around    *)
(* and the allocation fails (C8) and where an access out of bounds faults   *)
(* (C14).                                                                   *)
(***************************************************************************)
C18_Termination ==
    (F0 >= 1 /\ outcome \notin {"none", "running"})
        => outcome \in {"returned", "huge"}

====
